---- MODULE Spec2Model ----
(***************************************************************************)
(* Offline-first task manager: the service worker's background sync       *)
(* (src/sw.js), the page-side outbox producer                              *)
(* (src/service-worker-patterns.md) and the conflict resolver              *)
(* (src/technical-research.md).                                            *)
(***************************************************************************)
EXTENDS Integers, Sequences, FiniteSets, TLC

\* ------------------------------------------------------------------ bounds
MaxClock == 1        \* Date.now() ranges over 0..MaxClock
RandomRange == 2     \* distinct values of Math.random() once added to Date.now()
MaxEnqueue == 2      \* storeOperationForSync calls that reach store.add
MaxPasses == 2       \* syncPendingOperations calls that may be pending together
MaxTriggers == 3     \* drain passes started over a run
MaxTasks == 2        \* task ids 1..MaxTasks
MaxStamp == 2        \* modifiedAt ranges over 0..MaxStamp
MaxCalls == 2        \* strategy calls that may be pending together
MaxVersion == 2      \* versions 1..MaxVersion of a resource on the server
MaxBackground == 1   \* background fetches of one url that may be pending together
MaxText == 3          \* tokens of a title given to createTask
MaxRecords == 1       \* records the tasks store may hold together
MaxTaskIds == 2       \* ids createTask may give out over a run
MaxCreated == 1      \* tasks createTaskWithSync may save over a run
MaxPending == 2      \* createTaskWithSync / updateTaskWithSync calls pending together
MaxPathLen == 5      \* tokens of a request's pathname

\* --------------------------------------------------------------- constants
SYNC_TAG == "task-sync"
KnownTypes == {"CREATE_TASK", "UPDATE_TASK", "DELETE_TASK"}
\* "ARCHIVE_TASK" stands for every operation type executeOperation has no case for
OpTypes == KnownTypes \cup {"ARCHIVE_TASK"}
Tags == {SYNC_TAG, "other-sync"}
Clients == {"tab1", "tab2"}
TaskIds == 1..MaxTasks
Passes == 1..MaxPasses

VARIABLES
    now,            \* Date.now(), in milliseconds
    onLine,         \* navigator.onLine
    tasks,          \* ids of the tasks held by the page (this.tasks / database)
    syncQueue,      \* the syncQueue object store: a set of entries, keyed by id
    syncRegistered, \* a 'task-sync' registration is waiting for connectivity
    pass,           \* the pending syncPendingOperations calls
    inbox,          \* per client, the count of the last SYNC_COMPLETE received
    enqCount,       \* history: entries added so far (an entry's seq)
    applied,        \* history: seq of the entries executeOperation succeeded for
    triggers,       \* history: drain passes started
    lastMutation,   \* history: flips when createTaskWithSync / updateTaskWithSync succeeds
    lastComplete,   \* history: the last direct markOperationComplete call
    local, remote, resolved,  \* resolver inputs and result
    storeExists,    \* the database has a syncQueue object store
    lastDrain,      \* history: the last direct getPendingOperations call (result length)
    cache,          \* the task-manager-v1 cache: per url, the version held (0: none)
    served,         \* the version of the resources the server holds
    net,            \* what a fetch settling now gives: "ok", "error" or "down"
    call,           \* the pending strategy calls
    bgFetch,        \* per url, the background fetches not settled yet
    puts,           \* the cache.put calls not completed yet
    lastReturn,     \* history: the last result a strategy call ended with
    lastNetwork,    \* history: per url, the last version networkFirst returned from the network
    lastFetch,      \* history: the last fetch event and what the listener did
    taskStore,      \* the tasks object store: a set of records, keyed by id
    nextTaskId,     \* the id the next created task gets
    storeCall,      \* history: the last call of a TaskDatabase operation
    storePrior,     \* history: the call before it
    channel,        \* per context, the broadcast messages not yet delivered to it
    view,           \* per context, the ids of the tasks it shows
    manager,        \* per context, where its OptimisticTaskManager.createTask is
    lastReceipt,    \* history: the last message delivered and what the listener did
    dbVersion,      \* the version of TaskManagerDB (0: the database does not exist)
    objectStoreNames, \* the object stores of TaskManagerDB
    opened,         \* history: the contexts that have opened TaskManagerDB
    taskList,       \* this.tasks: the page's in-memory task list
    pending,        \* the createTaskWithSync / updateTaskWithSync calls awaiting the database
    lastCall,       \* history: the last such call that ended, with the list before and after
    lastFailure     \* history: the last syncPendingOperations call that could not open or read

vars == <<now, onLine, tasks, syncQueue, syncRegistered, pass, inbox, enqCount,
          applied, triggers, lastMutation, lastComplete, local, remote, resolved,
          storeExists, lastDrain, cache, served, net, call, bgFetch, puts,
          lastReturn, lastNetwork, lastFetch, taskStore, nextTaskId, storeCall,
          storePrior, channel, view, manager, lastReceipt, dbVersion,
          objectStoreNames, opened, taskList, pending, lastCall, lastFailure>>

syncVars == <<now, onLine, tasks, syncQueue, syncRegistered, pass, inbox,
              enqCount, applied, triggers, lastMutation, lastComplete>>
resolveVars == <<local, remote, resolved>>
storeVars == <<storeExists, lastDrain>>
cacheVars == <<cache, served, net, call, bgFetch, puts, lastReturn, lastNetwork,
               lastFetch>>
taskVars == <<taskStore, nextTaskId, storeCall, storePrior>>
tabVars == <<channel, view, manager, lastReceipt>>
dbVars == <<dbVersion, objectStoreNames, opened, lastFailure>>
listVars == <<taskList, pending, lastCall>>
pageVars == <<taskVars, tabVars, dbVars, listVars>>
otherVars == <<storeVars, cacheVars, pageVars>>

\* ------------------------------------------------------------ the Outbox
\* id: Date.now() + Math.random(), kept as the integer now * RandomRange + r
OperationId(t, r) == t * RandomRange + r

\* store.add of {...operation, id, timestamp}: the add request fails
\* (ConstraintError) when the key is already in the store, and the promise
\* rejects. seq is history: the entry's place in the order of enqueueing.
storeOperationForSync(queue, operation, t, r, seq) ==
    LET syncOperation == [id        |-> OperationId(t, r),
                          type      |-> operation.type,
                          target    |-> operation.target,
                          timestamp |-> t,
                          seq       |-> seq]
    IN  IF \E e \in queue : e.id = syncOperation.id
        THEN [ok |-> FALSE, queue |-> queue]
        ELSE [ok |-> TRUE,  queue |-> queue \cup {syncOperation}]

\* store.getAll(): every record of the store, in ascending key (id) order
getPendingOperations(queue) ==
    LET n == Cardinality(queue)
    IN  CHOOSE s \in [1..n -> queue] :
            \A a, b \in 1..n : a < b => s[a].id < s[b].id

\* mutant: a delete that fails for a key that is not in the store
markOperationComplete_MissingKeyRaises(queue, operationId) ==
    [raised |-> ~(\E e \in queue : e.id = operationId),
     queue  |-> {e \in queue : e.id # operationId}]

\* mutant: a delete that never takes effect
markOperationComplete_NoDelete(queue, operationId) ==
    [raised |-> FALSE, queue |-> queue]

\* store.delete(operationId): removes the record with that key; deleting a key
\* that is not in the store succeeds as well
markOperationComplete(queue, operationId) ==
    [raised |-> FALSE, queue |-> {e \in queue : e.id # operationId}]

\* the database handle openDatabase resolves with: whether it has the
\* syncQueue object store, and that store's records
Database == [hasSyncQueue |-> storeExists, records |-> syncQueue]

\* mutant: no contains('syncQueue') check and no catch around db.transaction
getPendingOperationsIn_NoCheck(db) ==
    IF ~db.hasSyncQueue
    THEN [raised |-> TRUE, result |-> <<>>]
    ELSE [raised |-> FALSE, result |-> getPendingOperations(db.records)]

\* getPendingOperations(db), whole: resolve([]) when the database has no
\* syncQueue store, else store.getAll()
getPendingOperationsIn(db) ==
    IF ~db.hasSyncQueue
    THEN [raised |-> FALSE, result |-> <<>>]
    ELSE [raised |-> FALSE, result |-> getPendingOperations(db.records)]

\* markOperationComplete(db, operationId), whole: resolve() with nothing
\* deleted when the database has no syncQueue store, else store.delete
markOperationCompleteIn(db, operationId) ==
    IF ~db.hasSyncQueue
    THEN [raised |-> FALSE, queue |-> db.records]
    ELSE markOperationComplete(db.records, operationId)

\* switch (type): the three known types resolve, any other type throws
executeOperation(operation) ==
    IF operation.type \in KnownTypes THEN "ok" ELSE "error"

\* ------------------------------------------------------- the page (producer)
\* requestBackgroundSync: store the operation, then register the sync tag; a
\* rejected store is caught and logged, and the tag is then not registered
requestBackgroundSync(operation, r) ==
    LET st == storeOperationForSync(syncQueue, operation, now, r, enqCount + 1)
    IN  /\ syncQueue' = st.queue
        /\ enqCount' = IF st.ok THEN enqCount + 1 ELSE enqCount
        /\ syncRegistered' = (syncRegistered \/ st.ok)

\* createTaskWithSync: database.createTask (which throws for invalid data),
\* then queue the create when offline
createTaskWithSync(valid, r) ==
    /\ enqCount < MaxEnqueue
    /\ tasks # TaskIds
    /\ LET id == CHOOSE i \in TaskIds \ tasks : \A j \in TaskIds \ tasks : i <= j
       IN  IF ~valid
           THEN UNCHANGED <<tasks, syncQueue, enqCount, syncRegistered, lastMutation>>
           ELSE /\ tasks' = tasks \cup {id}
                /\ lastMutation' = ~lastMutation
                /\ IF ~onLine
                   THEN requestBackgroundSync([type |-> "CREATE_TASK", target |-> id], r)
                   ELSE UNCHANGED <<syncQueue, enqCount, syncRegistered>>
    /\ UNCHANGED <<now, onLine, pass, inbox, applied, triggers, lastComplete>>
    /\ UNCHANGED <<resolveVars, otherVars>>

\* updateTaskWithSync: returns at once for a task the page does not hold; else
\* database.updateTask (which may throw), then queue the update when offline
updateTaskWithSync(taskId, dbOk, r) ==
    /\ enqCount < MaxEnqueue
    /\ IF taskId \notin tasks \/ ~dbOk
       THEN UNCHANGED <<syncQueue, enqCount, syncRegistered, lastMutation>>
       ELSE /\ lastMutation' = ~lastMutation
            /\ IF ~onLine
               THEN requestBackgroundSync([type |-> "UPDATE_TASK", target |-> taskId], r)
               ELSE UNCHANGED <<syncQueue, enqCount, syncRegistered>>
    /\ UNCHANGED <<now, onLine, tasks, pass, inbox, applied, triggers, lastComplete>>
    /\ UNCHANGED <<resolveVars, otherVars>>

\* a direct requestBackgroundSync call with an operation of another type
queueOperation(type, target, r) ==
    /\ enqCount < MaxEnqueue
    /\ target \in tasks
    /\ requestBackgroundSync([type |-> type, target |-> target], r)
    /\ UNCHANGED <<now, onLine, tasks, pass, inbox, applied, triggers,
                   lastMutation, lastComplete>>
    /\ UNCHANGED <<resolveVars, otherVars>>

\* ------------------------------------------------- the worker (Sync Driver)
IdlePass == [pc |-> "idle", origin |-> "none", ops |-> <<>>, i |-> 0,
             enq0 |-> 0, n0 |-> 0]

Running(p) == pass[p].pc \in {"exec", "mark", "notify"}

\* the loop's next position after entry i: the next entry, or the notification
Advance(ps) ==
    IF ps.i < Len(ps.ops) THEN [ps EXCEPT !.i = ps.i + 1, !.pc = "exec"]
                          ELSE [ps EXCEPT !.pc = "notify"]

\* syncPendingOperations, up to the loop: openDatabase and getPendingOperations.
\* Nothing in it looks at whether another call is still pending.
\* enq0 and n0 are history: the entries added, and those queued, at the start.
syncPendingOperations(origin) ==
    /\ triggers < MaxTriggers
    /\ \E p \in Passes : ~Running(p)
    /\ LET p == CHOOSE q \in Passes : ~Running(q) /\ \A o \in Passes : ~Running(o) => q <= o
           operations == getPendingOperationsIn(Database).result
       IN  pass' = [pass EXCEPT ![p] =
                       [pc     |-> IF Len(operations) = 0 THEN "notify" ELSE "exec",
                        origin |-> origin,
                        ops    |-> operations,
                        i      |-> IF Len(operations) = 0 THEN 0 ELSE 1,
                        enq0   |-> enqCount,
                        n0     |-> Cardinality(syncQueue)]]
    /\ triggers' = triggers + 1

\* mutant: a listener that does not compare event.tag with SYNC_TAG
SyncEvent_AnyTag(tag) ==
    /\ IF tag = SYNC_TAG
       THEN /\ syncRegistered /\ onLine
            /\ \A p \in Passes : Running(p) => pass[p].origin # tag
            /\ syncPendingOperations(tag)
            /\ syncRegistered' = FALSE
       ELSE /\ syncPendingOperations(tag)
            /\ UNCHANGED syncRegistered
    /\ UNCHANGED <<now, onLine, tasks, syncQueue, inbox, enqCount, applied,
                   lastMutation, lastComplete>>
    /\ UNCHANGED <<resolveVars, otherVars>>

\* self.addEventListener('sync'): the browser fires the event for a registered
\* tag once connectivity is there, one event per tag at a time
\* origin is history: the tag of the event that started the pass.
SyncEvent(tag) ==
    /\ IF tag = SYNC_TAG
       THEN /\ syncRegistered /\ onLine
            /\ \A p \in Passes : Running(p) => pass[p].origin # tag
            /\ syncPendingOperations(tag)
            /\ syncRegistered' = FALSE
       ELSE UNCHANGED <<pass, triggers, syncRegistered>>
    /\ UNCHANGED <<now, onLine, tasks, syncQueue, inbox, enqCount, applied,
                   lastMutation, lastComplete>>
    /\ UNCHANGED <<resolveVars, otherVars>>

\* requestImmediateSync: the explicit trigger starts a drain pass
requestImmediateSync ==
    syncPendingOperations("message")

\* self.addEventListener('message'), case 'REQUEST_SYNC'
MessageEvent ==
    /\ requestImmediateSync
    /\ UNCHANGED <<now, onLine, tasks, syncQueue, syncRegistered, inbox, enqCount,
                   applied, lastMutation, lastComplete>>
    /\ UNCHANGED <<resolveVars, otherVars>>

\* one loop iteration, first half: await executeOperation(operation); a throw
\* is caught inside the loop, which goes on with the next entry
ExecuteStep(p) ==
    /\ pass[p].pc = "exec"
    /\ LET ps == pass[p]
           operation == ps.ops[ps.i]
           r == executeOperation(operation)
       IN  IF r = "ok"
           THEN /\ applied' = applied \cup {operation.seq}
                /\ pass' = [pass EXCEPT ![p] = [ps EXCEPT !.pc = "mark"]]
           ELSE /\ applied' = applied
                /\ pass' = [pass EXCEPT ![p] = Advance(ps)]
    /\ UNCHANGED <<now, onLine, tasks, syncQueue, syncRegistered, inbox, enqCount,
                   triggers, lastMutation, lastComplete>>
    /\ UNCHANGED <<resolveVars, otherVars>>

\* one loop iteration, second half: await markOperationComplete(db, operation.id)
MarkStep(p) ==
    /\ pass[p].pc = "mark"
    /\ LET ps == pass[p]
           operation == ps.ops[ps.i]
           m == markOperationCompleteIn(Database, operation.id)
       IN  /\ syncQueue' = m.queue
           /\ pass' = [pass EXCEPT ![p] = Advance(ps)]
    /\ UNCHANGED <<now, onLine, tasks, syncRegistered, inbox, enqCount, applied,
                   triggers, lastMutation, lastComplete>>
    /\ UNCHANGED <<resolveVars, otherVars>>

\* mutant: a count of the entries whose application succeeded
SyncCompleteCount_Applied(ps) ==
    Cardinality({k \in 1..Len(ps.ops) : executeOperation(ps.ops[k]) = "ok"})

\* the count reported to the clients: operations.length
SyncCompleteCount(ps) == Len(ps.ops)

\* after the loop: clients.matchAll() and a SYNC_COMPLETE message to each client
NotifyStep(p) ==
    /\ pass[p].pc = "notify"
    /\ inbox' = [c \in Clients |-> SyncCompleteCount(pass[p])]
    /\ pass' = [pass EXCEPT ![p] = IdlePass]
    /\ UNCHANGED <<now, onLine, tasks, syncQueue, syncRegistered, enqCount, applied,
                   triggers, lastMutation, lastComplete>>
    /\ UNCHANGED <<resolveVars, otherVars>>

\* ------------------------------------------------------------ environment
Tick ==
    /\ now < MaxClock
    /\ now' = now + 1
    /\ UNCHANGED <<onLine, tasks, syncQueue, syncRegistered, pass, inbox, enqCount,
                   applied, triggers, lastMutation, lastComplete>>
    /\ UNCHANGED <<resolveVars, otherVars>>

\* navigator.onLine changes; nothing in the worker listens to it
Connectivity ==
    /\ onLine' = ~onLine
    /\ UNCHANGED <<now, tasks, syncQueue, syncRegistered, pass, inbox, enqCount,
                   applied, triggers, lastMutation, lastComplete>>
    /\ UNCHANGED <<resolveVars, otherVars>>

NoTask == [status |-> "pending", priority |-> "low", modifiedAt |-> 0, title |-> "a",
           completedAt |-> 0]

NoMessage == 0 - 1
NoComplete == [called |-> FALSE, again |-> FALSE, id |-> 0, raised |-> FALSE,
               before |-> {}, after |-> {}]

SyncInit ==
    /\ now = 0
    /\ onLine \in BOOLEAN
    /\ tasks = {}
    /\ syncQueue = {}
    /\ syncRegistered = FALSE
    /\ pass = [p \in Passes |-> IdlePass]
    /\ inbox = [c \in Clients |-> NoMessage]
    /\ enqCount = 0
    /\ applied = {}
    /\ triggers = 0
    /\ lastMutation = FALSE
    /\ lastComplete = NoComplete

\* the Outbox history and the cache, before anything has happened
\* the strategies are followed for the requests of one resource
Urls == {"/api/tasks"}
Calls == 1..MaxCalls
IdleCall == [pc |-> "idle", strategy |-> "none", url |-> "/api/tasks", tried |-> "none",
             found |-> 0]
NoDrain == [called |-> FALSE, raised |-> FALSE, count |-> 0]
NoReturn == [flip |-> FALSE, strategy |-> "none", url |-> "/api/tasks", source |-> "none",
             value |-> 0, found |-> 0, tried |-> "none", net |-> "ok", fresh |-> 0]
NoCall == [op |-> "none", id |-> 0, outcome |-> "none", result |-> <<>>,
           title |-> <<>>, changed |-> FALSE]
IdleManager == [pc |-> "idle", task |-> <<>>, error |-> FALSE]
NoReceipt == [to |-> "none", from |-> "none", type |-> "none", handled |-> FALSE]
Callers == 1..MaxPending
IdleCaller == [pc |-> "idle", id |-> 0, data |-> <<>>, previousState |-> <<>>,
               before |-> <<>>, alone |-> TRUE]
NoOutcome == [kind |-> "none", ok |-> FALSE, alone |-> FALSE, id |-> 0,
              before |-> <<>>, after |-> <<>>, committed |-> <<>>]
NoFailure == [step |-> "none", outcome |-> "none", at |-> 0]
NoFetch == [seen |-> FALSE,
            request |-> [method |-> "GET", sameOrigin |-> TRUE, pathname |-> <<"/">>],
            strategy |-> "none"]

\* the object stores of the persisted schema
SchemaStores == {"tasks", "categories", "syncQueue", "settings"}

\* TaskManagerDB exists at version 1; without the syncQueue store it holds the
\* stores of DB_SCHEMA
DbOpened ==
    /\ dbVersion = 1
    /\ objectStoreNames = IF storeExists THEN SchemaStores
                                         ELSE SchemaStores \ {"syncQueue"}
    /\ opened = {}
    /\ lastFailure = NoFailure

PageInit ==
    /\ taskStore = {}
    /\ nextTaskId = 1
    /\ storeCall = NoCall
    /\ storePrior = NoCall
    /\ channel = [c \in Clients |-> <<>>]
    /\ view = [c \in Clients |-> {}]
    /\ manager = [c \in Clients |-> IdleManager]
    /\ lastReceipt = NoReceipt
    /\ taskList = <<>>
    /\ pending = [k \in Callers |-> IdleCaller]
    /\ lastCall = NoOutcome

RestInit ==
    /\ lastDrain = NoDrain
    /\ cache = [u \in Urls |-> 0]
    /\ served = 1
    /\ net = "ok"
    /\ call = [c \in Calls |-> IdleCall]
    /\ bgFetch = [u \in Urls |-> 0]
    /\ puts = {}
    /\ lastReturn = NoReturn
    /\ lastNetwork = [u \in Urls |-> 0]
    /\ lastFetch = NoFetch
    /\ PageInit

Init ==
    /\ SyncInit
    /\ local = NoTask /\ remote = NoTask /\ resolved = <<>>
    /\ RestInit
    /\ storeExists = TRUE
    /\ DbOpened

Next ==
    \/ Tick
    \/ Connectivity
    \/ \E valid \in BOOLEAN, r \in 0..(RandomRange - 1) : createTaskWithSync(valid, r)
    \/ \E t \in TaskIds, dbOk \in BOOLEAN, r \in 0..(RandomRange - 1) :
           updateTaskWithSync(t, dbOk, r)
    \/ \E ty \in {"DELETE_TASK", "ARCHIVE_TASK"}, t \in TaskIds,
          r \in 0..(RandomRange - 1) : queueOperation(ty, t, r)
    \/ \E tag \in Tags : SyncEvent(tag)
    \/ MessageEvent
    \/ \E p \in Passes : ExecuteStep(p)
    \/ \E p \in Passes : MarkStep(p)
    \/ \E p \in Passes : NotifyStep(p)

Spec == Init /\ [][Next]_vars

\* ---------------------------------------------- the Outbox, called directly
\* The Outbox operations applied to any operation and any id, also ids that
\* were never given to an entry.
OperationIds == 0..(OperationId(MaxClock, RandomRange - 1) + 1)

\* without the store, db.transaction throws inside the onsuccess callback of
\* storeOperationForSync and its promise never settles: nothing is added
OutboxEnqueue(type, target, r) ==
    /\ storeExists
    /\ enqCount < MaxEnqueue
    /\ LET st == storeOperationForSync(syncQueue, [type |-> type, target |-> target],
                                       now, r, enqCount + 1)
       IN  /\ syncQueue' = st.queue
           /\ enqCount' = IF st.ok THEN enqCount + 1 ELSE enqCount
    /\ UNCHANGED <<now, onLine, tasks, syncRegistered, pass, inbox, applied, triggers,
                   lastMutation, lastComplete>>
    /\ UNCHANGED <<resolveVars, otherVars>>

OutboxComplete(id) ==
    /\ LET m == markOperationCompleteIn(Database, id)
       IN  /\ syncQueue' = m.queue
           /\ lastComplete' = [called |-> TRUE,
                               again  |-> lastComplete.called /\ lastComplete.id = id,
                               id     |-> id,
                               raised |-> m.raised,
                               before |-> syncQueue,
                               after  |-> m.queue]
    /\ lastDrain' = NoDrain
    /\ UNCHANGED <<now, onLine, tasks, syncRegistered, pass, inbox, enqCount, applied,
                   triggers, lastMutation>>
    /\ UNCHANGED <<resolveVars, cacheVars, pageVars, storeExists>>

\* lastDrain and lastComplete are history of the last direct call only: each
\* call clears the record of the other operation
OutboxDrain ==
    /\ LET g == getPendingOperationsIn(Database)
       IN  lastDrain' = [called |-> TRUE, raised |-> g.raised, count |-> Len(g.result)]
    /\ lastComplete' = NoComplete
    /\ UNCHANGED <<now, onLine, tasks, syncQueue, syncRegistered, pass, inbox, enqCount,
                   applied, triggers, lastMutation>>
    /\ UNCHANGED <<resolveVars, cacheVars, pageVars, storeExists>>

\* the database may have been created without the syncQueue store
OutboxInit ==
    /\ SyncInit
    /\ local = NoTask /\ remote = NoTask /\ resolved = <<>>
    /\ RestInit
    /\ storeExists \in BOOLEAN
    /\ DbOpened

OutboxNext ==
    \/ Tick
    \/ \E ty \in {"CREATE_TASK", "ARCHIVE_TASK"}, r \in 0..(RandomRange - 1) :
           OutboxEnqueue(ty, 1, r)
    \/ \E id \in OperationIds : OutboxComplete(id)
    \/ OutboxDrain

SpecOutbox == OutboxInit /\ [][OutboxNext]_vars

\* ------------------------------------------------ opening TaskManagerDB
Openers == {"page", "worker"}

\* indexedDB.open('TaskManagerDB', 1): upgradeneeded fires, and runs the
\* opener's handler, only when the database is older than version 1
open(version, names, onupgradeneeded) ==
    IF version < 1 THEN [version |-> 1, names |-> onupgradeneeded]
                   ELSE [version |-> version, names |-> names]

\* the worker's onupgradeneeded: create syncQueue if it doesn't exist
openDatabase ==
    /\ LET db == open(dbVersion, objectStoreNames, objectStoreNames \cup {"syncQueue"})
       IN  /\ dbVersion' = db.version
           /\ objectStoreNames' = db.names
           /\ storeExists' = ("syncQueue" \in db.names)
    /\ opened' = opened \cup {"worker"}
    /\ UNCHANGED lastFailure
    /\ UNCHANGED <<syncVars, resolveVars, lastDrain, cacheVars, taskVars, tabVars, listVars>>

\* createObjectStores(db): the stores of the persisted schema
createObjectStores(names) == names \cup SchemaStores

\* TaskDatabase.init: the page's onupgradeneeded calls createObjectStores
TaskDatabaseInit ==
    /\ LET db == open(dbVersion, objectStoreNames, createObjectStores(objectStoreNames))
       IN  /\ dbVersion' = db.version
           /\ objectStoreNames' = db.names
           /\ storeExists' = ("syncQueue" \in db.names)
    /\ opened' = opened \cup {"page"}
    /\ UNCHANGED lastFailure
    /\ UNCHANGED <<syncVars, resolveVars, lastDrain, cacheVars, taskVars, tabVars, listVars>>

\* no database yet
OpenInit ==
    /\ SyncInit
    /\ local = NoTask /\ remote = NoTask /\ resolved = <<>>
    /\ RestInit
    /\ storeExists = FALSE
    /\ dbVersion = 0
    /\ objectStoreNames = {}
    /\ opened = {}
    /\ lastFailure = NoFailure

OpenNext ==
    \/ openDatabase
    \/ TaskDatabaseInit
    \/ OutboxNext

SpecOpen == OpenInit /\ [][OpenNext]_vars

\* ------------------------------------------ the Sync Driver, storage failing
\* mutant: an outer catch that lets the failure out of syncPendingOperations
syncPendingOperationsCatch_Rethrow(step) ==
    [outcome |-> "rejected", posted |-> FALSE]

\* the outer catch of syncPendingOperations: the rejection of openDatabase or
\* of getPendingOperations is logged; the loop and the notification are
\* skipped and the promise resolves
syncPendingOperationsCatch(step) ==
    [outcome |-> "resolved", posted |-> FALSE]

\* REQUEST_SYNC when openDatabase (step "open") or the getAll request of
\* getPendingOperations (step "read") fails
MessageEventFailed(step) ==
    /\ triggers < MaxTriggers
    /\ triggers' = triggers + 1
    /\ LET r == syncPendingOperationsCatch(step)
       IN  /\ lastFailure' = [step |-> step, outcome |-> r.outcome, at |-> triggers + 1]
           /\ inbox' = IF r.posted THEN [c \in Clients |-> 0] ELSE inbox
    /\ UNCHANGED <<now, onLine, tasks, syncQueue, syncRegistered, pass, enqCount,
                   applied, lastMutation, lastComplete>>
    /\ UNCHANGED <<dbVersion, objectStoreNames, opened>>
    /\ UNCHANGED <<resolveVars, storeVars, cacheVars, taskVars, tabVars, listVars>>

\* one loop iteration, second half, when the delete request fails:
\* markOperationComplete rejects, the loop's catch logs it and the loop goes on
MarkFailStep(p) ==
    /\ pass[p].pc = "mark"
    /\ pass' = [pass EXCEPT ![p] = Advance(pass[p])]
    /\ UNCHANGED <<now, onLine, tasks, syncQueue, syncRegistered, inbox, enqCount,
                   applied, triggers, lastMutation, lastComplete>>
    /\ UNCHANGED <<resolveVars, otherVars>>

FaultNext ==
    \/ \E ty \in {"CREATE_TASK", "ARCHIVE_TASK"}, r \in 0..(RandomRange - 1) :
           OutboxEnqueue(ty, 1, r)
    \/ MessageEvent
    \/ \E step \in {"open", "read"} : MessageEventFailed(step)
    \/ \E p \in Passes : ExecuteStep(p)
    \/ \E p \in Passes : MarkStep(p)
    \/ \E p \in Passes : MarkFailStep(p)
    \/ \E p \in Passes : NotifyStep(p)

\* the worker runs while the application is online
FaultInit == Init /\ onLine

SpecFaults == FaultInit /\ [][FaultNext]_vars

\* ----------------------------------------------------- the Conflict Resolver
Statuses == {"pending", "completed", "archived"}
Priorities == {"low", "high"}
Titles == {"a", "b"}
\* the versions of a task a replica may hold: completedAt (0: null) is set in
\* exactly the completed ones
TaskVersions == {t \in [status : Statuses, priority : Priorities,
                        modifiedAt : 0..MaxStamp, title : Titles,
                        completedAt : 0..MaxStamp] :
                    (t.completedAt # 0) <=> (t.status = "completed")}

\* resolveStatusConflict: completion takes precedence, else the remote status
resolveStatusConflict(localStatus, remoteStatus) ==
    IF localStatus = "completed" \/ remoteStatus = "completed"
    THEN "completed"
    ELSE remoteStatus

\* resolvePriorityConflict: called where local is not the more recent version,
\* so the remote priority stands
resolvePriorityConflict(localPriority, remotePriority) == remotePriority

\* mutant: a merge that keeps the local version's fields
resolveTaskConflict_LocalFields(localTask, remoteTask) ==
    IF localTask.modifiedAt > remoteTask.modifiedAt
    THEN localTask
    ELSE [localTask EXCEPT
             !.status = resolveStatusConflict(localTask.status, remoteTask.status),
             !.priority = resolvePriorityConflict(localTask.priority,
                                                  remoteTask.priority)]

\* resolveTaskConflict: the local version whole when it is the more recent,
\* else the remote version with status and priority resolved
resolveTaskConflict(localTask, remoteTask) ==
    IF localTask.modifiedAt > remoteTask.modifiedAt
    THEN localTask
    ELSE [remoteTask EXCEPT
             !.status = resolveStatusConflict(localTask.status, remoteTask.status),
             !.priority = resolvePriorityConflict(localTask.priority,
                                                  remoteTask.priority)]

ResolveInit ==
    /\ SyncInit
    /\ local \in TaskVersions
    /\ remote \in TaskVersions
    /\ resolved = <<>>
    /\ RestInit
    /\ storeExists = TRUE
    /\ DbOpened

Resolve ==
    /\ resolved = <<>>
    /\ resolved' = <<resolveTaskConflict(local, remote)>>
    /\ UNCHANGED <<local, remote>>
    /\ UNCHANGED <<syncVars, otherVars>>

ResolveNext == Resolve

SpecResolve == ResolveInit /\ [][ResolveNext]_vars

\* ------------------------------------------- one task record over its life
\* local is the page's task object for one record. Object.assign(task, updates,
\* { modifiedAt: new Date().toISOString() }): the fields of the patch, then
\* modifiedAt from the clock; when database.updateTask rejects, the object is
\* put back to its previous state.
AssignUpdates(updates, dbOk) ==
    /\ local' = IF dbOk
                THEN [local EXCEPT !.status = updates.status, !.modifiedAt = now]
                ELSE local
    /\ UNCHANGED <<remote, resolved>>
    /\ UNCHANGED <<syncVars, otherVars>>

\* a version of the record written by another replica arrives, and the
\* resolved record replaces the one held
ApplyResolution(remoteTask) ==
    /\ local' = resolveTaskConflict(local, remoteTask)
    /\ UNCHANGED <<remote, resolved>>
    /\ UNCHANGED <<syncVars, otherVars>>

TaskNext ==
    \/ Tick
    \/ \E st \in Statuses, dbOk \in BOOLEAN : AssignUpdates([status |-> st], dbOk)
    \/ \E remoteTask \in TaskVersions : ApplyResolution(remoteTask)

SpecTask == Init /\ [][TaskNext]_vars

\* ---------------------------------------------------- the InputSanitizer
\* A text is a sequence of tokens: single characters, "a*199" for a run of 199
\* letters, "onerror=" for the text of an event-handler attribute, and the
\* entities that innerHTML writes for the characters it escapes.
TitleLimit == 200
TitleTokens == {"a", "a*199", " ", "<"}
Texts == UNION {[1..n -> TitleTokens] : n \in 0..MaxText}
Descriptions == {<<>>, <<"a", "&">>, <<"<", "onerror=", ">">>}
ValidPriorities == {"low", "medium", "high", "urgent"}

\* the characters a token stands for
Width(token) ==
    CASE token = "a*199" -> 199
      [] token = "onerror=" -> 8
      [] token = "&lt;" -> 4
      [] token = "&gt;" -> 4
      [] token = "&amp;" -> 5
      [] OTHER -> 1

\* String.prototype.length
RECURSIVE length(_)
length(text) == IF text = <<>> THEN 0 ELSE Width(Head(text)) + length(Tail(text))

RECURSIVE trimStart(_)
trimStart(text) ==
    IF text # <<>> /\ Head(text) = " " THEN trimStart(Tail(text)) ELSE text

RECURSIVE trimEnd(_)
trimEnd(text) ==
    IF text # <<>> /\ text[Len(text)] = " "
    THEN trimEnd(SubSeq(text, 1, Len(text) - 1))
    ELSE text

\* String.prototype.trim
trim(text) == trimEnd(trimStart(text))

\* sanitizeHTML: div.textContent = input; return div.innerHTML. The text is
\* serialized with &, < and > written as entities; nothing is removed.
sanitizeHTML(input) ==
    IF input = <<>>
    THEN <<>>
    ELSE [i \in 1..Len(input) |->
             CASE input[i] = "<" -> "&lt;"
               [] input[i] = ">" -> "&gt;"
               [] input[i] = "&" -> "&amp;"
               [] OTHER -> input[i]]

\* validateTaskData: trim and sanitize the texts, default an unknown priority
\* and status, then throw when the sanitized title is empty or longer than 200
validateTaskData(data) ==
    LET sanitized ==
            [title       |-> sanitizeHTML(trim(data.title)),
             description |-> sanitizeHTML(trim(data.description)),
             priority    |-> IF data.priority \in ValidPriorities
                             THEN data.priority ELSE "medium",
             status      |-> IF data.status \in Statuses
                             THEN data.status ELSE "pending"]
    IN  IF sanitized.title = <<>> \/ length(sanitized.title) > TitleLimit
        THEN [ok |-> FALSE, value |-> <<>>]
        ELSE [ok |-> TRUE, value |-> <<sanitized>>]

\* ------------------------------------------------------ the TaskDatabase
\* mutant: a createTask that persists the texts as they were given
createTask_PersistsInput(store, id, data) ==
    LET v == validateTaskData(data)
    IN  IF ~v.ok
        THEN [outcome |-> "ValidationError", result |-> <<>>, store |-> store]
        ELSE LET record == [id |-> id] @@ v.value[1]
                 raw == [record EXCEPT !.title = data.title,
                                       !.description = data.description]
             IN  [outcome |-> "ok", result |-> <<record>>,
                  store |-> store \cup {raw}]

\* createTask(task): validateTaskData before the transaction, then the record
\* is added under a new id and returned
createTask(store, id, data) ==
    LET v == validateTaskData(data)
    IN  IF ~v.ok
        THEN [outcome |-> "ValidationError", result |-> <<>>, store |-> store]
        ELSE LET record == [id |-> id] @@ v.value[1]
             IN  [outcome |-> "ok", result |-> <<record>>,
                  store |-> store \cup {record}]

\* readTask(id): the record with that id, or null (the empty sequence)
readTask(store, id) ==
    LET found == {t \in store : t.id = id}
    IN  IF found = {} THEN <<>> ELSE <<CHOOSE t \in found : TRUE>>

\* mutant: a deleteTask that resolves for an id that has no record
deleteTask_Silent(store, id) ==
    [outcome |-> "ok", store |-> {t \in store : t.id # id}]

\* deleteTask(id): NotFoundError for an id that has no record, else the record
\* is removed
deleteTask(store, id) ==
    IF \A t \in store : t.id # id
    THEN [outcome |-> "NotFoundError", store |-> store]
    ELSE [outcome |-> "ok", store |-> {t \in store : t.id # id}]

TaskInputs == [title : Texts, description : Descriptions,
               priority : {"urgent", "bogus"}, status : {"undefined"}]

\* a call of database.createTask
CreateTask(data) ==
    /\ Cardinality(taskStore) < MaxRecords
    /\ nextTaskId <= MaxTaskIds
    /\ LET c == createTask(taskStore, nextTaskId, data)
       IN  /\ taskStore' = c.store
           /\ nextTaskId' = IF c.outcome = "ok" THEN nextTaskId + 1 ELSE nextTaskId
           /\ storeCall' = [op      |-> "create",
                            id      |-> IF c.outcome = "ok" THEN nextTaskId ELSE 0,
                            outcome |-> c.outcome,
                            result  |-> c.result,
                            title   |-> data.title,
                            changed |-> c.store # taskStore]
    /\ storePrior' = [storeCall EXCEPT !.title = <<>>]
    /\ UNCHANGED <<syncVars, resolveVars, storeVars, cacheVars, tabVars, dbVars, listVars>>

\* a call of database.readTask
ReadTask(id) ==
    /\ storeCall' = [op      |-> "read",
                     id      |-> id,
                     outcome |-> "ok",
                     result  |-> readTask(taskStore, id),
                     title   |-> <<>>,
                     changed |-> FALSE]
    /\ storePrior' = [storeCall EXCEPT !.title = <<>>]
    /\ UNCHANGED <<taskStore, nextTaskId>>
    /\ UNCHANGED <<syncVars, resolveVars, storeVars, cacheVars, tabVars, dbVars, listVars>>

\* a call of database.deleteTask
DeleteTask(id) ==
    /\ LET d == deleteTask(taskStore, id)
       IN  /\ taskStore' = d.store
           /\ storeCall' = [op      |-> "delete",
                            id      |-> id,
                            outcome |-> d.outcome,
                            result  |-> <<>>,
                            title   |-> <<>>,
                            changed |-> d.store # taskStore]
    /\ storePrior' = [storeCall EXCEPT !.title = <<>>]
    /\ UNCHANGED nextTaskId
    /\ UNCHANGED <<syncVars, resolveVars, storeVars, cacheVars, tabVars, dbVars, listVars>>

StoreNext ==
    \/ \E data \in TaskInputs : CreateTask(data)
    \/ \E id \in 1..MaxTaskIds : ReadTask(id)
    \/ \E id \in 1..MaxTaskIds : DeleteTask(id)

\* the page opens with an empty task store
StoreInit == Init /\ onLine

SpecStore == StoreInit /\ [][StoreNext]_vars

\* ------------------------------------------------------- the CrossTabSync
\* this.tabId: neither the constructor nor any method of CrossTabSync assigns
\* it, so it is undefined in every context
tabId(ctx) == "undefined"

\* broadcast(type, data): channel.postMessage queues the message for every
\* other BroadcastChannel object of the same name; from is history (the
\* context that posted)
broadcast(chan, ctx, type, data) ==
    LET message == [type |-> type, data |-> data, tabId |-> tabId(ctx), from |-> ctx]
    IN  [c \in Clients |-> IF c = ctx THEN chan[c] ELSE Append(chan[c], message)]

ManagerInputs == {d \in TaskInputs : /\ Len(d.title) <= 1
                                     /\ d.description = <<>>
                                     /\ d.priority = "urgent"}

\* the task shown while the create is pending: {...taskData, id: tempId}
optimisticTask(data) == [id |-> 0, title |-> data.title, description |-> data.description,
                         priority |-> data.priority, status |-> "creating"]

\* mutant: a createTask whose catch branch broadcasts the optimistic task
OptimisticCreate_BroadcastInCatch(ctx, data, dbOk) ==
    /\ manager[ctx].pc = "idle"
    /\ nextTaskId <= MaxTaskIds
    /\ LET c == createTask(taskStore, nextTaskId, data)
       IN  IF dbOk /\ c.outcome = "ok"
           THEN /\ taskStore' = c.store
                /\ nextTaskId' = nextTaskId + 1
                /\ manager' = [manager EXCEPT ![ctx] =
                                  [pc |-> "saved", task |-> c.result, error |-> FALSE]]
                /\ UNCHANGED channel
           ELSE /\ manager' = [manager EXCEPT ![ctx].error = TRUE]
                /\ channel' = broadcast(channel, ctx, "TASK_CREATED", optimisticTask(data))
                /\ UNCHANGED <<taskStore, nextTaskId>>
    /\ UNCHANGED <<storeCall, storePrior, view, lastReceipt>>
    /\ UNCHANGED <<syncVars, resolveVars, storeVars, cacheVars, dbVars, listVars>>

\* OptimisticTaskManager.createTask up to the end of await
\* this.database.createTask(taskData): the record is committed, or the call
\* throws (validation, or the transaction aborts) and the catch branch removes
\* the optimistic task and shows the error
OptimisticCreate(ctx, data, dbOk) ==
    /\ manager[ctx].pc = "idle"
    /\ nextTaskId <= MaxTaskIds
    /\ LET c == createTask(taskStore, nextTaskId, data)
       IN  IF dbOk /\ c.outcome = "ok"
           THEN /\ taskStore' = c.store
                /\ nextTaskId' = nextTaskId + 1
                /\ manager' = [manager EXCEPT ![ctx] =
                                  [pc |-> "saved", task |-> c.result, error |-> FALSE]]
           ELSE /\ manager' = [manager EXCEPT ![ctx].error = TRUE]
                /\ UNCHANGED <<taskStore, nextTaskId>>
    /\ UNCHANGED <<storeCall, storePrior, channel, view, lastReceipt>>
    /\ UNCHANGED <<syncVars, resolveVars, storeVars, cacheVars, dbVars, listVars>>

\* createTask after the await: replaceTaskInUI(tempId, savedTask), then
\* crossTabSync.broadcast('TASK_CREATED', savedTask)
CreateSaved(ctx) ==
    /\ manager[ctx].pc = "saved"
    /\ view' = [view EXCEPT ![ctx] = @ \cup {manager[ctx].task[1].id}]
    /\ channel' = broadcast(channel, ctx, "TASK_CREATED", manager[ctx].task[1])
    /\ manager' = [manager EXCEPT ![ctx] = IdleManager]
    /\ UNCHANGED <<taskVars, lastReceipt>>
    /\ UNCHANGED <<syncVars, resolveVars, storeVars, cacheVars, dbVars, listVars>>

\* the channel's message listener in context ctx, for the oldest message
\* queued for it: return when tabId === this.tabId, else handleTaskChange,
\* which merges the payload into the view
ChannelMessage(ctx) ==
    /\ channel[ctx] # <<>>
    /\ LET message == Head(channel[ctx])
           ignored == message.tabId = tabId(ctx)
       IN  /\ view' = IF ignored
                      THEN view
                      ELSE [view EXCEPT ![ctx] = @ \cup {message.data.id}]
           /\ lastReceipt' = [to |-> ctx, from |-> message.from,
                              type |-> message.type, handled |-> ~ignored]
    /\ channel' = [channel EXCEPT ![ctx] = Tail(@)]
    /\ UNCHANGED <<taskVars, manager>>
    /\ UNCHANGED <<syncVars, resolveVars, storeVars, cacheVars, dbVars, listVars>>

BroadcastNext ==
    \/ \E ctx \in Clients, data \in ManagerInputs, dbOk \in BOOLEAN :
           OptimisticCreate(ctx, data, dbOk)
    \/ \E ctx \in Clients : CreateSaved(ctx)
    \/ \E ctx \in Clients : ChannelMessage(ctx)

SpecBroadcast == StoreInit /\ [][BroadcastNext]_vars

\* ------------------------------------- the page's optimistic task list
\* new Date().toISOString(); 0 stands for null
Stamp == now + 1

\* 'temp-' + Date.now(), kept as a negative number
TempId(t) == 0 - (t + 1)

\* Object.assign(target, source): the keys of source are written over target
ObjectAssign(target, source) == source @@ target

\* this.tasks.findIndex(t => t.id === id), from 1; 0 when there is none
findIndex(list, id) ==
    IF \E i \in 1..Len(list) : list[i].id = id
    THEN CHOOSE i \in 1..Len(list) :
             list[i].id = id /\ \A j \in 1..(i - 1) : list[j].id # id
    ELSE 0

\* this.tasks.filter(t => t.id !== id)
RECURSIVE filterOut(_, _)
filterOut(list, id) ==
    IF list = <<>> THEN <<>>
    ELSE IF Head(list).id = id THEN filterOut(Tail(list), id)
    ELSE <<Head(list)>> \o filterOut(Tail(list), id)

\* taskData: a valid title, or an empty one that createTask rejects
ListInputs == {d \in ManagerInputs : d.title \in {<<>>, <<"a">>}}

Updates == {[status |-> "completed"], [priority |-> "high"]}

\* updateTask(id, updates): NotFoundError for an id that has no record, else
\* the record with the patch applied, modifiedAt recomputed, and completedAt
\* set on the transition to completed and cleared on the transition away
updateTask(store, id, updates, stamp) ==
    IF \A t \in store : t.id # id
    THEN [outcome |-> "NotFoundError", result |-> <<>>, store |-> store]
    ELSE LET old == CHOOSE t \in store : t.id = id
             patched == ObjectAssign(old, updates)
             record == [patched EXCEPT
                           !.modifiedAt = stamp,
                           !.completedAt =
                               IF patched.status # "completed" THEN 0
                               ELSE IF old.status = "completed" THEN old.completedAt
                               ELSE stamp]
         IN  [outcome |-> "ok", result |-> <<record>>,
              store |-> (store \ {old}) \cup {record}]

\* another call starts: the calls already pending are no longer alone
Overlapped(k) ==
    [j \in Callers |-> IF j # k /\ pending[j].pc # "idle"
                       THEN [pending[j] EXCEPT !.alone = FALSE]
                       ELSE pending[j]]

\* createTaskWithSync up to await this.database.createTask(taskData): the
\* optimistic task is put at the head of the list
CreateOptimistic(k, data) ==
    /\ pending[k].pc = "idle"
    /\ nextTaskId <= MaxCreated
    /\ LET provisional == [id          |-> TempId(now),
                              isOptimistic |-> TRUE,
                              createdAt   |-> Stamp,
                              modifiedAt  |-> Stamp] @@ data
       IN  /\ taskList' = <<provisional>> \o taskList
           /\ pending' = [Overlapped(k) EXCEPT ![k] =
                             [pc            |-> "create",
                              id            |-> provisional.id,
                              data          |-> <<data>>,
                              previousState |-> <<>>,
                              before        |-> taskList,
                              alone         |-> \A j \in Callers : pending[j].pc = "idle"]]
    /\ UNCHANGED <<taskVars, lastCall>>
    /\ UNCHANGED <<syncVars, resolveVars, storeVars, cacheVars, tabVars, dbVars>>

\* createTaskWithSync from the end of the await: the saved task replaces the
\* optimistic one and, offline, the create is queued; when the database
\* throws, the catch block filters the optimistic task out
CreatePersisted(k, dbOk, r) ==
    /\ pending[k].pc = "create"
    /\ LET data == pending[k].data[1]
           c == createTask(taskStore, nextTaskId, data)
           ok == dbOk /\ c.outcome = "ok"
           savedTask == [createdAt |-> Stamp, modifiedAt |-> Stamp, completedAt |-> 0]
                            @@ c.result[1]
           index == findIndex(taskList, pending[k].id)
       IN  /\ taskStore' = IF ok THEN taskStore \cup {savedTask} ELSE taskStore
           /\ nextTaskId' = IF ok THEN nextTaskId + 1 ELSE nextTaskId
           /\ taskList' = IF ~ok THEN filterOut(taskList, pending[k].id)
                          ELSE IF index # 0 THEN [taskList EXCEPT ![index] = savedTask]
                          ELSE taskList
           /\ lastCall' = [kind      |-> "create",
                           ok        |-> ok,
                           alone     |-> pending[k].alone,
                           id        |-> IF ok THEN savedTask.id ELSE 0,
                           before    |-> pending[k].before,
                           after     |-> taskList',
                           committed |-> IF ok THEN <<savedTask>> ELSE <<>>]
           /\ IF ok /\ ~onLine /\ enqCount < MaxEnqueue
              THEN requestBackgroundSync([type |-> "CREATE_TASK", target |-> savedTask.id], r)
              ELSE UNCHANGED <<syncQueue, enqCount, syncRegistered>>
    /\ pending' = [pending EXCEPT ![k] = IdleCaller]
    /\ UNCHANGED <<now, onLine, tasks, pass, inbox, applied, triggers, lastMutation,
                   lastComplete>>
    /\ UNCHANGED <<storeCall, storePrior>>
    /\ UNCHANGED <<resolveVars, storeVars, cacheVars, tabVars, dbVars>>

\* updateTaskWithSync up to await this.database.updateTask(taskId, updates),
\* for a task of the list: previousState is copied and the updates assigned
UpdateOptimistic(k, taskId, updates) ==
    /\ pending[k].pc = "idle"
    /\ findIndex(taskList, taskId) # 0
    /\ LET index == findIndex(taskList, taskId)
           task == taskList[index]
       IN  /\ taskList' = [taskList EXCEPT ![index] =
                              ObjectAssign(ObjectAssign(task, updates),
                                           [modifiedAt |-> Stamp])]
           /\ pending' = [Overlapped(k) EXCEPT ![k] =
                             [pc            |-> "update",
                              id            |-> taskId,
                              data          |-> <<updates>>,
                              previousState |-> <<task>>,
                              before        |-> taskList,
                              alone         |-> \A j \in Callers : pending[j].pc = "idle"]]
    /\ UNCHANGED <<taskVars, lastCall>>
    /\ UNCHANGED <<syncVars, resolveVars, storeVars, cacheVars, tabVars, dbVars>>

\* updateTaskWithSync from the end of the await: the result of
\* database.updateTask is not used and, offline, the update is queued; when
\* the database throws, previousState is assigned back to the task
UpdatePersisted(k, dbOk, r) ==
    /\ pending[k].pc = "update"
    /\ LET taskId == pending[k].id
           u == updateTask(taskStore, taskId, pending[k].data[1], Stamp)
           ok == dbOk /\ u.outcome = "ok"
           index == findIndex(taskList, taskId)
       IN  /\ taskStore' = IF ok THEN u.store ELSE taskStore
           /\ taskList' = IF ok \/ index = 0 THEN taskList
                          ELSE [taskList EXCEPT ![index] =
                                   ObjectAssign(taskList[index], pending[k].previousState[1])]
           /\ lastCall' = [kind      |-> "update",
                           ok        |-> ok,
                           alone     |-> pending[k].alone,
                           id        |-> taskId,
                           before    |-> pending[k].before,
                           after     |-> taskList',
                           committed |-> IF ok THEN u.result ELSE <<>>]
           /\ IF ok /\ ~onLine /\ enqCount < MaxEnqueue
              THEN requestBackgroundSync([type |-> "UPDATE_TASK", target |-> taskId], r)
              ELSE UNCHANGED <<syncQueue, enqCount, syncRegistered>>
    /\ pending' = [pending EXCEPT ![k] = IdleCaller]
    /\ UNCHANGED <<now, onLine, tasks, pass, inbox, applied, triggers, lastMutation,
                   lastComplete>>
    /\ UNCHANGED <<nextTaskId, storeCall, storePrior>>
    /\ UNCHANGED <<resolveVars, storeVars, cacheVars, tabVars, dbVars>>

ListNext ==
    \/ Tick
    \/ \E k \in Callers, data \in ListInputs : CreateOptimistic(k, data)
    \/ \E k \in Callers, dbOk \in BOOLEAN, r \in 0..(RandomRange - 1) :
           CreatePersisted(k, dbOk, r)
    \/ \E k \in Callers, taskId \in 1..MaxCreated, updates \in Updates :
           UpdateOptimistic(k, taskId, updates)
    \/ \E k \in Callers, dbOk \in BOOLEAN, r \in 0..(RandomRange - 1) :
           UpdatePersisted(k, dbOk, r)

SpecList == StoreInit /\ [][ListNext]_vars

\* ------------------------------------------------- the caching strategies
\* A response is its version of the resource (1..MaxVersion); 0 is "no cached
\* response". A strategy call ends with a source and a value: "network" (an ok
\* response), "network-error" (a response that is not ok), "cache", "503" (the
\* Response built by the strategy) or "rejected" (the promise rejects).
Strategies == {"networkFirst", "cacheFirst", "staleWhileRevalidate"}
NetStates == {"ok", "error", "down"}

\* the promise of call c settles; found is what cache.match gave the call
Settle(c, strategy, url, source, value, found, tried) ==
    /\ lastReturn' = [flip     |-> ~lastReturn.flip,
                      strategy |-> strategy,
                      url      |-> url,
                      source   |-> source,
                      value    |-> value,
                      found    |-> found,
                      tried    |-> tried,
                      net      |-> net,
                      fresh    |-> lastNetwork[url]]
    /\ call' = [call EXCEPT ![c] = IdleCall]

\* cache.put(request, response.clone()): issued, never awaited
Put(url, value) == puts' = puts \cup {[url |-> url, value |-> value]}

\* mutant: a network-first that looks into the cache before the network
networkFirstStrategy_CacheBeforeNetwork(c, url) ==
    /\ call[c].pc = "idle"
    /\ call' = [call EXCEPT ![c] =
                   [pc       |-> IF cache[url] # 0 THEN "fallback" ELSE "fetch",
                    strategy |-> "networkFirst",
                    url      |-> url,
                    tried    |-> "none",
                    found    |-> 0]]
    /\ UNCHANGED <<cache, served, net, bgFetch, puts, lastReturn, lastNetwork,
                   lastFetch>>
    /\ UNCHANGED <<syncVars, resolveVars, storeVars, pageVars>>

\* networkFirstStrategy(request), up to its first await: fetch(request)
networkFirstStrategy(c, url) ==
    /\ call[c].pc = "idle"
    /\ call' = [call EXCEPT ![c] =
                   [pc       |-> "fetch",
                    strategy |-> "networkFirst",
                    url      |-> url,
                    tried    |-> "none",
                    found    |-> 0]]
    /\ UNCHANGED <<cache, served, net, bgFetch, puts, lastReturn, lastNetwork,
                   lastFetch>>
    /\ UNCHANGED <<syncVars, resolveVars, storeVars, pageVars>>

\* the fetch of a network-first call settles: an ok response is put into the
\* cache and returned, another response is returned as it is, a rejection
\* goes to the catch block
NetworkFirstFetched(c) ==
    /\ call[c].pc = "fetch"
    /\ call[c].strategy = "networkFirst"
    /\ LET url == call[c].url
       IN  CASE net = "ok" ->
                   /\ Put(url, served)
                   /\ lastNetwork' = [lastNetwork EXCEPT ![url] = served]
                   /\ Settle(c, "networkFirst", url, "network", served, 0, "none")
             [] net = "error" ->
                   /\ Settle(c, "networkFirst", url, "network-error", 0, 0, "none")
                   /\ UNCHANGED <<puts, lastNetwork>>
             [] net = "down" ->
                   /\ call' = [call EXCEPT ![c].pc = "fallback", ![c].tried = "failed"]
                   /\ UNCHANGED <<puts, lastNetwork, lastReturn>>
    /\ UNCHANGED <<cache, served, net, bgFetch, lastFetch>>
    /\ UNCHANGED <<syncVars, resolveVars, storeVars, pageVars>>

\* mutant: a catch block that rethrows when nothing is cached
networkFirstCatch_Rethrow(cachedResponse) ==
    IF cachedResponse # 0
    THEN [source |-> "cache", value |-> cachedResponse]
    ELSE [source |-> "rejected", value |-> 0]

\* the catch block: the cached response if there is one, else a 503 response
networkFirstCatch(cachedResponse) ==
    IF cachedResponse # 0
    THEN [source |-> "cache", value |-> cachedResponse]
    ELSE [source |-> "503", value |-> 0]

\* the catch block of a network-first call runs: cache.match, then return
NetworkFirstFallback(c) ==
    /\ call[c].pc = "fallback"
    /\ call[c].strategy = "networkFirst"
    /\ LET url == call[c].url
           r == networkFirstCatch(cache[url])
       IN  Settle(c, "networkFirst", url, r.source, r.value, cache[url], call[c].tried)
    /\ UNCHANGED <<cache, served, net, bgFetch, puts, lastNetwork, lastFetch>>
    /\ UNCHANGED <<syncVars, resolveVars, storeVars, pageVars>>

\* cacheFirstStrategy(request), up to where it returns or awaits its fetch:
\* with a cached response, a background fetch is issued and the cached
\* response returned
cacheFirstStrategy(c, url) ==
    /\ call[c].pc = "idle"
    /\ IF cache[url] # 0
       THEN /\ bgFetch[url] < MaxBackground
            /\ bgFetch' = [bgFetch EXCEPT ![url] = bgFetch[url] + 1]
            /\ Settle(c, "cacheFirst", url, "cache", cache[url], cache[url], "none")
       ELSE /\ call' = [call EXCEPT ![c] =
                           [pc       |-> "fetch",
                            strategy |-> "cacheFirst",
                            url      |-> url,
                            tried    |-> "none",
                            found    |-> 0]]
            /\ UNCHANGED <<bgFetch, lastReturn>>
    /\ UNCHANGED <<cache, served, net, puts, lastNetwork, lastFetch>>
    /\ UNCHANGED <<syncVars, resolveVars, storeVars, pageVars>>

\* the awaited fetch of a cache-first call settles; a rejection is caught and
\* answered with the 'Offline' 503 response
CacheFirstFetched(c) ==
    /\ call[c].pc = "fetch"
    /\ call[c].strategy = "cacheFirst"
    /\ LET url == call[c].url
       IN  CASE net = "ok" ->
                   /\ Put(url, served)
                   /\ Settle(c, "cacheFirst", url, "network", served, 0, "none")
             [] net = "error" ->
                   /\ Settle(c, "cacheFirst", url, "network-error", 0, 0, "none")
                   /\ UNCHANGED puts
             [] net = "down" ->
                   /\ Settle(c, "cacheFirst", url, "503", 0, 0, "failed")
                   /\ UNCHANGED puts
    /\ UNCHANGED <<cache, served, net, bgFetch, lastNetwork, lastFetch>>
    /\ UNCHANGED <<syncVars, resolveVars, storeVars, pageVars>>

\* mutant: a stale-while-revalidate that awaits its fetch before it returns
staleWhileRevalidateStrategy_AwaitFetch(c, url) ==
    /\ call[c].pc = "idle"
    /\ call' = [call EXCEPT ![c] =
                   [pc       |-> "fetch",
                    strategy |-> "staleWhileRevalidate",
                    url      |-> url,
                    tried    |-> "none",
                    found    |-> cache[url]]]
    /\ UNCHANGED <<cache, served, net, bgFetch, puts, lastReturn, lastNetwork,
                   lastFetch>>
    /\ UNCHANGED <<syncVars, resolveVars, storeVars, pageVars>>

\* mutant: a stale-while-revalidate that issues no fetch when it has a cached
\* response
staleWhileRevalidateStrategy_NoRevalidate(c, url) ==
    /\ call[c].pc = "idle"
    /\ IF cache[url] # 0
       THEN /\ Settle(c, "staleWhileRevalidate", url, "cache", cache[url],
                      cache[url], "none")
       ELSE /\ call' = [call EXCEPT ![c] =
                           [pc       |-> "fetch",
                            strategy |-> "staleWhileRevalidate",
                            url      |-> url,
                            tried    |-> "none",
                            found    |-> 0]]
            /\ UNCHANGED lastReturn
    /\ UNCHANGED <<cache, served, net, bgFetch, puts, lastNetwork, lastFetch>>
    /\ UNCHANGED <<syncVars, resolveVars, storeVars, pageVars>>

\* staleWhileRevalidateStrategy(request): cache.match, then the fetch is
\* issued in every case; cachedResponse || fetchPromise returns the cached
\* response if there is one, else the call waits on the fetch
staleWhileRevalidateStrategy(c, url) ==
    /\ call[c].pc = "idle"
    /\ IF cache[url] # 0
       THEN /\ bgFetch[url] < MaxBackground
            /\ bgFetch' = [bgFetch EXCEPT ![url] = bgFetch[url] + 1]
            /\ Settle(c, "staleWhileRevalidate", url, "cache", cache[url],
                      cache[url], "none")
       ELSE /\ call' = [call EXCEPT ![c] =
                           [pc       |-> "fetch",
                            strategy |-> "staleWhileRevalidate",
                            url      |-> url,
                            tried    |-> "none",
                            found    |-> 0]]
            /\ UNCHANGED <<bgFetch, lastReturn>>
    /\ UNCHANGED <<cache, served, net, puts, lastNetwork, lastFetch>>
    /\ UNCHANGED <<syncVars, resolveVars, storeVars, pageVars>>

\* mutant: a stale-while-revalidate that answers a rejected fetch with a 503
\* response
StaleWhileRevalidateFetched_Fallback(c) ==
    /\ call[c].pc = "fetch"
    /\ call[c].strategy = "staleWhileRevalidate"
    /\ LET url == call[c].url
           found == call[c].found
       IN  CASE net = "ok" ->
                   /\ Put(url, served)
                   /\ Settle(c, "staleWhileRevalidate", url, "network", served,
                             found, "none")
             [] net = "error" ->
                   /\ Settle(c, "staleWhileRevalidate", url, "network-error", 0,
                             found, "none")
                   /\ UNCHANGED puts
             [] net = "down" ->
                   /\ Settle(c, "staleWhileRevalidate", url, "503", 0,
                             found, "failed")
                   /\ UNCHANGED puts
    /\ UNCHANGED <<cache, served, net, bgFetch, lastNetwork, lastFetch>>
    /\ UNCHANGED <<syncVars, resolveVars, storeVars, pageVars>>

\* the fetch a stale-while-revalidate call waits on settles; a rejection of
\* the fetch is the rejection of the call
StaleWhileRevalidateFetched(c) ==
    /\ call[c].pc = "fetch"
    /\ call[c].strategy = "staleWhileRevalidate"
    /\ LET url == call[c].url
           found == call[c].found
       IN  CASE net = "ok" ->
                   /\ Put(url, served)
                   /\ Settle(c, "staleWhileRevalidate", url, "network", served,
                             found, "none")
             [] net = "error" ->
                   /\ Settle(c, "staleWhileRevalidate", url, "network-error", 0,
                             found, "none")
                   /\ UNCHANGED puts
             [] net = "down" ->
                   /\ Settle(c, "staleWhileRevalidate", url, "rejected", 0,
                             found, "failed")
                   /\ UNCHANGED puts
    /\ UNCHANGED <<cache, served, net, bgFetch, lastNetwork, lastFetch>>
    /\ UNCHANGED <<syncVars, resolveVars, storeVars, pageVars>>

\* mutant: a background fetch whose response is put into the cache without
\* looking at response.ok (0 stands for the body of an error response)
BackgroundFetched_PutAny(url) ==
    /\ bgFetch[url] > 0
    /\ bgFetch' = [bgFetch EXCEPT ![url] = bgFetch[url] - 1]
    /\ CASE net = "ok" -> Put(url, served)
         [] net = "error" -> Put(url, 0)
         [] net = "down" -> UNCHANGED puts
    /\ UNCHANGED <<cache, served, net, call, lastReturn, lastNetwork, lastFetch>>
    /\ UNCHANGED <<syncVars, resolveVars, storeVars, pageVars>>

\* a fetch issued behind a returned cached response settles: an ok response
\* is put into the cache, anything else is dropped
BackgroundFetched(url) ==
    /\ bgFetch[url] > 0
    /\ bgFetch' = [bgFetch EXCEPT ![url] = bgFetch[url] - 1]
    /\ IF net = "ok" THEN Put(url, served) ELSE UNCHANGED puts
    /\ UNCHANGED <<cache, served, net, call, lastReturn, lastNetwork, lastFetch>>
    /\ UNCHANGED <<syncVars, resolveVars, storeVars, pageVars>>

\* a cache.put completes: the entry of the request is overwritten
PutDone(pt) ==
    /\ pt \in puts
    /\ cache' = [cache EXCEPT ![pt.url] = pt.value]
    /\ puts' = puts \ {pt}
    /\ UNCHANGED <<served, net, call, bgFetch, lastReturn, lastNetwork, lastFetch>>
    /\ UNCHANGED <<syncVars, resolveVars, storeVars, pageVars>>

\* the server gets a new version of its resources
ServerUpdate ==
    /\ served < MaxVersion
    /\ served' = served + 1
    /\ UNCHANGED <<cache, net, call, bgFetch, puts, lastReturn, lastNetwork,
                   lastFetch>>
    /\ UNCHANGED <<syncVars, resolveVars, storeVars, pageVars>>

\* the network changes: fetches succeed, give error responses, or reject
NetworkChange(n) ==
    /\ n # net
    /\ net' = n
    /\ UNCHANGED <<cache, served, call, bgFetch, puts, lastReturn, lastNetwork,
                   lastFetch>>
    /\ UNCHANGED <<syncVars, resolveVars, storeVars, pageVars>>

CacheInit == Init /\ onLine

CacheNext ==
    \/ \E c \in Calls, u \in Urls : networkFirstStrategy(c, u)
    \/ \E c \in Calls : NetworkFirstFetched(c)
    \/ \E c \in Calls : NetworkFirstFallback(c)
    \/ \E c \in Calls, u \in Urls : cacheFirstStrategy(c, u)
    \/ \E c \in Calls : CacheFirstFetched(c)
    \/ \E c \in Calls, u \in Urls : staleWhileRevalidateStrategy(c, u)
    \/ \E c \in Calls : StaleWhileRevalidateFetched(c)
    \/ \E u \in Urls : BackgroundFetched(u)
    \/ \E u \in Urls, v \in 1..MaxVersion : PutDone([url |-> u, value |-> v])
    \/ ServerUpdate
    \/ \E n \in NetStates : NetworkChange(n)

SpecCache == CacheInit /\ [][CacheNext]_vars

\* ------------------------------------------------------ the fetch listener
\* A pathname is a sequence of tokens, "/" among them, so that
\* pathname.includes('/api/') is the search for a contiguous part.
PathTokens == {"/", "api", "static"}
Pathnames == {p \in UNION {[1..n -> PathTokens] : n \in 1..MaxPathLen} : p[1] = "/"}
Requests == [method : {"GET", "POST"}, sameOrigin : BOOLEAN, pathname : Pathnames]

\* String.prototype.includes
includes(string, part) ==
    \E i \in 1..(Len(string) - Len(part) + 1) :
        SubSeq(string, i, i + Len(part) - 1) = part

\* mutant: a listener that tests '/static/' before '/api/'
fetchListener_StaticFirst(request) ==
    IF request.method # "GET" \/ ~request.sameOrigin
    THEN "none"
    ELSE IF includes(request.pathname, <<"/", "static", "/">>)
         THEN "cacheFirst"
         ELSE IF includes(request.pathname, <<"/", "api", "/">>)
              THEN "networkFirst"
              ELSE "staleWhileRevalidate"

\* the listener's choice: "none" when it returns without respondWith, else the
\* strategy the request is handed to
fetchListener(request) ==
    IF request.method # "GET" \/ ~request.sameOrigin
    THEN "none"
    ELSE IF includes(request.pathname, <<"/", "api", "/">>)
         THEN "networkFirst"
         ELSE IF includes(request.pathname, <<"/", "static", "/">>)
              THEN "cacheFirst"
              ELSE "staleWhileRevalidate"

\* self.addEventListener('fetch'): the strategy call that respondWith is given
\* is followed under SpecCache
FetchEvent(request) ==
    /\ lastFetch' = [seen     |-> TRUE,
                     request  |-> request,
                     strategy |-> fetchListener(request)]
    /\ UNCHANGED <<cache, served, net, call, bgFetch, puts, lastReturn, lastNetwork>>
    /\ UNCHANGED <<syncVars, resolveVars, storeVars, pageVars>>

\* the listener may run with anything in the cache
FetchInit ==
    /\ SyncInit
    /\ local = NoTask /\ remote = NoTask /\ resolved = <<>>
    /\ storeExists = TRUE
    /\ DbOpened
    /\ lastDrain = NoDrain
    /\ cache \in [Urls -> 0..MaxVersion]
    /\ served = 1
    /\ net = "ok"
    /\ call = [c \in Calls |-> IdleCall]
    /\ bgFetch = [u \in Urls |-> 0]
    /\ puts = {}
    /\ lastReturn = NoReturn
    /\ lastNetwork = [u \in Urls |-> 0]
    /\ lastFetch = NoFetch
    /\ PageInit

FetchNext ==
    \/ \E request \in Requests : FetchEvent(request)
    \/ Connectivity

SpecFetch == FetchInit /\ [][FetchNext]_vars

\* ------------------------------------------------------------------ claims
InQueue(seq) == \E e \in syncQueue : e.seq = seq
Fails(e) == e.type \notin KnownTypes
Busy(p) == pass[p].pc \in {"exec", "mark"}
Current(p) == pass[p].ops[pass[p].i]
HasKey(queue, id) == \E e \in queue : e.id = id

\* C1: whenever either version is completed, the resolved status is completed,
\* whatever the two modifiedAt values are.
C1_CompletionPrecedence ==
    (resolved # <<>> /\ (local.status = "completed" \/ remote.status = "completed"))
        => resolved[1].status = "completed"

\* C2: when a pass has gone through its loop, every entry of the pass whose
\* application fails is still in the Outbox, and every entry whose application
\* succeeds (those after a failed one included) has been applied and removed.
C2_FailedStaysOthersDrained ==
    \A p \in Passes : pass[p].pc = "notify" =>
        \A k \in 1..Len(pass[p].ops) :
            LET e == pass[p].ops[k]
            IN  /\ Fails(e) => e \in syncQueue
                /\ ~Fails(e) => e.seq \in applied /\ e \notin syncQueue

\* C3: every entry that was enqueued and is no longer in the Outbox has been
\* applied (executeOperation succeeded for it) at least once.
C3_RemovedOnlyAfterApplied ==
    \A seq \in 1..enqCount : ~InQueue(seq) => seq \in applied

\* C4: at most one drain pass is in flight at any time.
C4_AtMostOneDrain ==
    Cardinality({p \in Passes : Running(p)}) <= 1

\* C5: a create or update that succeeds appends exactly one Outbox entry of
\* its kind when connectivity is absent, and none when it is present.
C5_OneEntryPerOfflineMutation ==
    [][lastMutation' # lastMutation =>
          IF onLine
          THEN syncQueue' = syncQueue
          ELSE /\ Cardinality(syncQueue') = Cardinality(syncQueue) + 1
               /\ \A e \in syncQueue' \ syncQueue :
                      e.type = IF tasks' # tasks THEN "CREATE_TASK"
                                                 ELSE "UPDATE_TASK"]_vars

\* C6: when a pass ends that started with n queued mutations (each of a type
\* the worker applies) and nothing was enqueued since its start, the Outbox is
\* empty and every client has received SYNC_COMPLETE with count n.
C6_DrainEmptiesAndReportsCount ==
    [][\A p \in Passes :
          (/\ pass[p].pc = "notify"
           /\ pass'[p].pc = "idle"
           /\ enqCount = pass[p].enq0
           /\ \A k \in 1..Len(pass[p].ops) : ~Fails(pass[p].ops[k]))
          => /\ syncQueue' = {}
             /\ \A c \in Clients : inbox'[c] = pass[p].n0]_vars

\* C6 witness: two mutations were queued, a pass has drained them and ended,
\* and the clients hold the count 2.
C6_Witness ==
    /\ enqCount = 2
    /\ applied = {1, 2}
    /\ syncQueue = {}
    /\ \A p \in Passes : pass[p].pc = "idle"
    /\ \A c \in Clients : inbox[c] = 2

\* C7: every pass applies its entries in the order they were enqueued, and no
\* two operations on the same record id are in flight together.
C7_InOrderOnePerRecord ==
    /\ \A p \in Passes : \A a, b \in 1..Len(pass[p].ops) :
           a < b => pass[p].ops[a].seq < pass[p].ops[b].seq
    /\ \A p, q \in Passes :
           (p # q /\ Busy(p) /\ Busy(q)) => Current(p).target # Current(q).target

\* C8: getPendingOperations returns every pending entry, in the order in which
\* the entries were enqueued.
C8_DrainInEnqueueOrder ==
    LET s == getPendingOperations(syncQueue)
    IN  /\ {s[k] : k \in 1..Len(s)} = syncQueue
        /\ \A a, b \in 1..Len(s) : a < b => s[a].seq < s[b].seq

\* C9: an entry's timestamp is strictly greater than that of every entry
\* enqueued before it.
C9_StrictlyIncreasingTimestamp ==
    \A e1, e2 \in syncQueue : e1.seq < e2.seq => e1.timestamp < e2.timestamp

\* C10: markOperationComplete never raises and removes exactly the entry with
\* the given id; for an id that is not in the Outbox (a second call for the
\* same id, or an id no entry ever had) it leaves the Outbox unchanged.
C10_CompleteIdempotent ==
    lastComplete.called =>
        /\ ~lastComplete.raised
        /\ ~HasKey(lastComplete.after, lastComplete.id)
        /\ lastComplete.after = {e \in lastComplete.before : e.id # lastComplete.id}
        /\ ~HasKey(lastComplete.before, lastComplete.id)
               => lastComplete.after = lastComplete.before

\* C10 witness: a second call in a row for the same id, on an Outbox that still
\* holds another entry.
C10_Witness ==
    /\ lastComplete.called
    /\ lastComplete.again
    /\ lastComplete.before # {}
    /\ lastComplete.before = syncQueue

\* C11: when the database has no syncQueue object store, getPendingOperations
\* returns an empty sequence and markOperationComplete changes nothing, and
\* neither of them fails.
C11_MissingStoreTolerated ==
    ~storeExists =>
        /\ lastDrain.called => (~lastDrain.raised /\ lastDrain.count = 0)
        /\ lastComplete.called =>
               (~lastComplete.raised /\ lastComplete.after = lastComplete.before)

\* C11 witness: getPendingOperations has been called on a database without
\* the store and has resolved
C11_Witness ==
    /\ ~storeExists
    /\ lastDrain.called
    /\ ~lastDrain.raised

\* C12: once connectivity is lost while a drain pass is running, the pass
\* applies no further entry, so the entries not yet applied at that moment stay
\* in the Outbox untouched. (A pass started by a sync event started with
\* connectivity present.)
C12_LossStopsDrain ==
    [][\A p \in Passes :
          (pass[p].origin = SYNC_TAG /\ pass[p].pc = "exec" /\ ~onLine)
              => pass'[p].pc # "mark"]_vars

\* C13: a REQUEST_SYNC message and a sync event with the shared tag each start
\* a drain pass over the entries then in the Outbox, and no pass is started by
\* anything else, a sync event with another tag included.
C13_TriggersStartPass ==
    [][/\ (syncRegistered /\ ~syncRegistered')
           => \E p \in Passes : ~Running(p) /\ pass'[p].origin = SYNC_TAG
       /\ \A p \in Passes :
              (~Running(p) /\ pass'[p] # pass[p])
                  => /\ pass'[p].origin \in {"message", SYNC_TAG}
                     /\ pass'[p].pc \in {"exec", "notify"}
                     /\ pass'[p].ops = getPendingOperations(syncQueue)
                     /\ triggers' = triggers + 1]_vars

\* C13 witness: a pass started by the message and one started by the sync
\* event are pending, each over a queued entry.
C13_Witness ==
    /\ \E p \in Passes : pass[p].origin = "message" /\ pass[p].pc = "exec"
    /\ \E p \in Passes : pass[p].origin = SYNC_TAG /\ pass[p].pc = "exec"

\* C14: an entry whose application has failed in a pass is still in the
\* Outbox, for a later pass to attempt it again.
C14_FailedEntryStaysQueued ==
    \A p \in Passes : Running(p) =>
        \A k \in 1..Len(pass[p].ops) :
            ((k < pass[p].i \/ pass[p].pc = "notify") /\ Fails(pass[p].ops[k]))
                => pass[p].ops[k] \in syncQueue

\* C15: whenever networkFirstStrategy returns a cached response, its network
\* attempt for that request was made first and failed.
C15_CacheOnlyAfterNetworkFailed ==
    (lastReturn.strategy = "networkFirst" /\ lastReturn.source = "cache")
        => lastReturn.tried = "failed"

\* C15 witness: a network-first call has returned the cached response
C15_Witness ==
    /\ lastReturn.strategy = "networkFirst"
    /\ lastReturn.source = "cache"
    /\ lastReturn.value # 0

\* C16: after a failed network attempt networkFirstStrategy returns the cached
\* response if there is one and else a 503 response; its promise never
\* rejects, and a pending call can always take its next step.
C16_FallbackOrUnavailable ==
    /\ lastReturn.strategy = "networkFirst" =>
           /\ lastReturn.source # "rejected"
           /\ lastReturn.tried = "failed" =>
                  IF lastReturn.found # 0
                  THEN lastReturn.source = "cache" /\ lastReturn.value = lastReturn.found
                  ELSE lastReturn.source = "503"
    /\ \A c \in Calls :
           (call[c].strategy = "networkFirst" /\ call[c].pc # "idle")
               => ENABLED (NetworkFirstFetched(c) \/ NetworkFirstFallback(c))

\* C16 witness: the network attempt failed with nothing cached, and the call
\* returned the 503 response
C16_Witness ==
    /\ lastReturn.strategy = "networkFirst"
    /\ lastReturn.tried = "failed"
    /\ lastReturn.found = 0
    /\ lastReturn.source = "503"

\* C17: once networkFirstStrategy has returned an ok network response for a
\* request, a later fallback for that request returns a cached response that
\* is this response or a later one.
C17_FallbackYieldsNetworkResponse ==
    (/\ lastReturn.strategy = "networkFirst"
     /\ lastReturn.tried = "failed"
     /\ lastReturn.fresh # 0)
        => (lastReturn.source = "cache" /\ lastReturn.value >= lastReturn.fresh)

\* C18: with a response cached for the request and the network failing,
\* cacheFirstStrategy and staleWhileRevalidateStrategy return the cached
\* response.
C18_CachedValueWhenNetworkFails ==
    (/\ lastReturn.strategy \in {"cacheFirst", "staleWhileRevalidate"}
     /\ lastReturn.found # 0
     /\ lastReturn.net # "ok")
        => (lastReturn.source = "cache" /\ lastReturn.value = lastReturn.found)

\* C18 witness: stale-while-revalidate has returned the cached response while
\* fetches reject
C18_Witness ==
    /\ lastReturn.strategy = "staleWhileRevalidate"
    /\ lastReturn.found # 0
    /\ lastReturn.net = "down"
    /\ lastReturn.source = "cache"

C20_StrategyByRequestAlone ==
    lastFetch.seen =>
        LET r == lastFetch.request
            intercepted == r.method = "GET" /\ r.sameOrigin
            api == includes(r.pathname, <<"/", "api", "/">>)
            static == includes(r.pathname, <<"/", "static", "/">>)
        IN  /\ ~intercepted => lastFetch.strategy = "none"
            /\ (intercepted /\ api) => lastFetch.strategy = "networkFirst"
            /\ (intercepted /\ ~api /\ static) => lastFetch.strategy = "cacheFirst"
            /\ (intercepted /\ ~api /\ ~static)
                   => lastFetch.strategy = "staleWhileRevalidate"

\* C20 witness: offline and with a cached response, a same-origin GET for
\* /static/api/ has been given network-first
C20_Witness ==
    /\ lastFetch.seen
    /\ lastFetch.request = [method |-> "GET", sameOrigin |-> TRUE,
                            pathname |-> <<"/", "static", "/", "api", "/">>]
    /\ lastFetch.strategy = "networkFirst"
    /\ ~onLine
    /\ \E u \in Urls : cache[u] # 0

\* C21: every field other than status and priority (here title, completedAt
\* and modifiedAt itself) has in the resolved record the value it has in the
\* version with the greater modifiedAt.
C21_OtherFieldsFromNewer ==
    resolved # <<>> =>
        LET r == resolved[1]
            Same(t) == /\ r.title = t.title
                       /\ r.completedAt = t.completedAt
                       /\ r.modifiedAt = t.modifiedAt
        IN  /\ local.modifiedAt > remote.modifiedAt => Same(local)
            /\ remote.modifiedAt > local.modifiedAt => Same(remote)

\* C21 witness: the remote version is the more recent, the two differ in
\* title, and the resolved record has the remote title
C21_Witness ==
    /\ resolved # <<>>
    /\ remote.modifiedAt > local.modifiedAt
    /\ remote.title # local.title
    /\ resolved[1].title = remote.title

\* C22: resolving the same two versions in the opposite roles gives the same
\* record.
C22_ResolveCommutes ==
    resolved # <<>> => resolved[1] = resolveTaskConflict(remote, local)

\* C23: no update and no conflict resolution leaves the record with a
\* modifiedAt smaller than the one it had before the step.
C23_ModifiedAtNeverDecreases ==
    [][local'.modifiedAt >= local.modifiedAt]_vars

\* C24: the resolved record of two versions, each with completedAt set exactly
\* when completed, has completedAt set exactly when its status is completed.
C24_CompletedAtIffCompleted ==
    resolved # <<>> =>
        ((resolved[1].completedAt # 0) <=> (resolved[1].status = "completed"))

C26_DeletedStaysDeleted ==
    (/\ storePrior.op = "delete"
     /\ storePrior.outcome = "ok"
     /\ storeCall.id = storePrior.id)
    => /\ storeCall.op = "read" => storeCall.result = <<>>
       /\ storeCall.op = "delete" =>
              /\ storeCall.outcome = "NotFoundError"
              /\ ~storeCall.changed

\* C26 witness: a delete that removed a record is followed by a delete of the
\* same id
C26_Witness ==
    /\ storePrior.op = "delete"
    /\ storePrior.outcome = "ok"
    /\ storePrior.changed
    /\ storeCall.op = "delete"
    /\ storeCall.id = storePrior.id
    /\ storeCall.outcome = "NotFoundError"

\* C27: create fails, with the store and the outbox as they were, exactly when
\* the title it was given is empty or longer than 200 characters; a title of 1
\* to 200 characters is accepted.
C27_RejectsExactlyBadTitles ==
    storeCall.op = "create" =>
        /\ (storeCall.outcome = "ValidationError")
               <=> (length(storeCall.title) = 0
                       \/ length(storeCall.title) > TitleLimit)
        /\ storeCall.outcome = "ValidationError" =>
               ~storeCall.changed /\ syncQueue = {}

\* C28: no title and no description in the store holds a tag delimiter or the
\* text of an event-handler attribute.
C28_PersistedTextIsInert ==
    \A t \in taskStore :
        \A text \in {t.title, t.description} :
            \A i \in 1..Len(text) : text[i] \notin {"<", ">", "onerror="}

\* C29: the listener of a context handles a delivered message exactly when the
\* message was posted by another context.
C29_HandlesExactlyForeignMessages ==
    lastReceipt.to # "none" =>
        (lastReceipt.handled <=> (lastReceipt.from # lastReceipt.to))

\* C30: a step that posts a task message posts the record of a write that the
\* store had committed before the step; a create that failed posts nothing.
C30_PostedAfterCommit ==
    [][\A ctx \in Clients :
           Len(channel'[ctx]) > Len(channel[ctx]) =>
               LET message == channel'[ctx][Len(channel'[ctx])]
               IN  /\ message.type = "TASK_CREATED"
                   /\ message.data \in taskStore]_vars

\* C30 witness: a create has failed in one context, and the message of a
\* committed create is in flight
C30_Witness ==
    /\ \E ctx \in Clients : manager[ctx].error
    /\ \E ctx \in Clients :
           /\ channel[ctx] # <<>>
           /\ channel[ctx][1].data \in taskStore

\* C31: once the page and the worker have both opened TaskManagerDB, in
\* whichever order, the database has the four object stores tasks,
\* categories, syncQueue and settings.
C31_BothOpenedAllStores ==
    opened = Openers => objectStoreNames = SchemaStores

\* C32: when cacheFirstStrategy returns a response it fetched after a cache
\* miss, the cache holds that response at the moment of the return.
C32_MissPopulatesBeforeReturn ==
    [][(/\ lastReturn'.flip # lastReturn.flip
        /\ lastReturn'.strategy = "cacheFirst"
        /\ lastReturn'.source = "network")
       => cache'[lastReturn'.url] = lastReturn'.value]_vars

\* C33: a staleWhileRevalidateStrategy call that found nothing in the cache
\* ends as its fetch ends: with the server's response when the fetch gives an
\* ok response, with the error response when it gives one, and rejected, with
\* no response in its place, when the fetch is rejected.
C33_NoCacheMeansFetchOutcome ==
    [][(/\ lastReturn'.flip # lastReturn.flip
        /\ lastReturn'.strategy = "staleWhileRevalidate"
        /\ lastReturn'.found = 0)
       => CASE net = "ok" -> /\ lastReturn'.source = "network"
                             /\ lastReturn'.value = served
            [] net = "error" -> lastReturn'.source = "network-error"
            [] net = "down" -> lastReturn'.source = "rejected"]_vars

\* C33 witness: a stale-while-revalidate call with nothing cached has ended
\* rejected, its fetch having failed
C33_Witness ==
    /\ lastReturn.strategy = "staleWhileRevalidate"
    /\ lastReturn.found = 0
    /\ lastReturn.tried = "failed"
    /\ lastReturn.source = "rejected"

\* C40: every cache.put is issued in a step whose fetch gave an ok response,
\* with that response; the cache and the pending puts hold nothing else.
C40_OnlyOkResponsesCached ==
    [][/\ \A pt \in puts' \ puts : net = "ok" /\ pt.value = served
       /\ \A u \in Urls : cache'[u] # cache[u] =>
              [url |-> u, value |-> cache'[u]] \in puts]_vars

\* C40 witness: a fetch has given an error response while a response was
\* cached, and the cache still holds a server response with no put pending
C40_Witness ==
    /\ lastReturn.source = "network-error"
    /\ lastReturn.net = "error"
    /\ cache[lastReturn.url] >= 1
    /\ puts = {}

\* C34: a createTaskWithSync or updateTaskWithSync call that ran with no other
\* such call pending leaves the task list, when it fails, exactly as it was
\* before the call, and, when it succeeds, with the committed record in the
\* place of the provisional one.
C34_RollbackOrCommitted ==
    (lastCall.kind # "none" /\ lastCall.alone) =>
        IF ~lastCall.ok
        THEN lastCall.after = lastCall.before
        ELSE LET index == findIndex(lastCall.after, lastCall.id)
             IN  /\ index # 0
                 /\ lastCall.after[index] = lastCall.committed[1]
                 /\ \A i \in 1..Len(lastCall.after) : lastCall.after[i].id >= 1

\* C35: the count every client receives when a pass ends is the number of
\* entries that were in the Outbox when the pass read it, whatever became of
\* them during the pass.
C35_CountIsSnapshotSize ==
    [][\A p \in Passes :
          (pass[p].pc = "notify" /\ pass'[p].pc = "idle")
          => \A c \in Clients : /\ inbox'[c] = pass[p].n0
                                /\ inbox'[c] = Len(pass[p].ops)]_vars

\* C35 witness: the only entry ever queued is of a type that cannot be
\* applied, it is still queued, no pass is running, and the clients hold the
\* count 1
C35_Witness ==
    /\ enqCount = 1
    /\ applied = {}
    /\ \E e \in syncQueue : Fails(e)
    /\ \A p \in Passes : pass[p].pc = "idle"
    /\ \A c \in Clients : inbox[c] = 1

\* C37: a pass removes no entry that was enqueued after it read its snapshot,
\* and every entry enqueued after that is still queued when the pass ends.
C37_LateEntryLeftForNextPass ==
    [][\A p \in Passes :
          /\ (pass[p].pc = "mark" /\ pass'[p] # pass[p])
                 => \A e \in syncQueue \ syncQueue' : e.seq <= pass[p].enq0
          /\ (pass[p].pc = "notify" /\ pass'[p].pc = "idle")
                 => \A seq \in (pass[p].enq0 + 1)..enqCount : InQueue(seq)]_vars

\* C38: no step removes an entry of a type executeOperation has no case for,
\* and when a pass has gone through its loop every entry of its snapshot of
\* a known type has been applied and is no longer queued under its id.
C38_UnknownTypeStaysOthersDrain ==
    [][/\ \A e \in syncQueue \ syncQueue' : ~Fails(e)
       /\ \A p \in Passes :
              (pass[p].pc # "notify" /\ pass'[p].pc = "notify")
                  => \A k \in 1..Len(pass'[p].ops) :
                         ~Fails(pass'[p].ops[k])
                             => /\ pass'[p].ops[k].seq \in applied'
                                /\ \A e \in syncQueue' :
                                       e.seq # pass'[p].ops[k].seq]_vars

\* C36: an entry whose application succeeded and whose delete failed is still
\* queued and is in the snapshot of every pass that starts while it is; no
\* step removes an entry that has not been applied.
C36_AppliedBeforeRemoved ==
    [][/\ \A e \in syncQueue \ syncQueue' : e.seq \in applied
       /\ \A p \in Passes :
              /\ (pass[p].pc = "mark" /\ pass'[p] # pass[p] /\ syncQueue' = syncQueue)
                     => \A e \in syncQueue : e.seq \in applied => e \in syncQueue'
              /\ (pass[p].pc = "idle" /\ pass'[p].pc # "idle")
                     => \A e \in syncQueue :
                            \E k \in 1..Len(pass'[p].ops) : pass'[p].ops[k] = e]_vars

====
